---- MODULE Spec2Model ----
(***************************************************************************)
(* Model of the CivicAid admin dashboard (src/src/AdminDashboard.tsx, and  *)
(* its earlier variant without profiles, src/unnamed/part_000).            *)
(*                                                                         *)
(* The remote tables (reports, report_interactions, profiles) are state    *)
(* of the backend; the component state is reports / loading / error /      *)
(* statusFilter.  Every `await` of the code is a point where other events  *)
(* may run, so every fetchReports run and every updateReportStatus call    *)
(* is a small process whose position is kept in fetches / updates.         *)
(***************************************************************************)
EXTENDS Integers, Sequences, FiniteSets, TLC

VARIABLES
    dbReports,       \* remote table "reports", in insertion order
    dbInteractions,  \* remote table "report_interactions"
    dbProfiles,      \* remote table "profiles"
    withProfiles,    \* TRUE: AdminDashboard.tsx; FALSE: the variant of part_000
    mounted,         \* the mount effect has run
    reports,         \* useState<ReportWithVotes[]>([])
    loading,         \* useState(true)
    error,           \* useState<string | null>(null)
    statusFilter,    \* useState<ReportStatus | "all">("all")
    fetches,         \* the fetchReports runs, by start order
    updates,         \* the updateReportStatus calls, by start order
    alerts,          \* number of alert("Failed to update status") shown
    now,             \* the clock read by new Date()
    lastSet          \* the fetchReports run whose setReports came last (0: none)

vars == <<dbReports, dbInteractions, dbProfiles, withProfiles, mounted, reports,
          loading, error, statusFilter, fetches, updates, alerts, now, lastSet>>

(***************************************************************************)
(* Bounds of the model.                                                    *)
(***************************************************************************)
\* Spec: the fetches of the dashboard against a backend that citizens write to.
MaxFetches == 2
MaxReports == 2
\* SpecSolo: the dashboard as the only writer of the backend.
SoloMaxFetches == 2
SoloMaxUpdates == 1
\* SpecLive: status updates against a backend that citizens write to.
LiveMaxUpdates == 1
\* SpecAgg: one fetch over arbitrary tables.
AggMaxReports == 2
AggMaxInteractions == 3

(***************************************************************************)
(* Values.                                                                 *)
(***************************************************************************)
NULL == "<null>"

Statuses == {"reported", "in_progress", "resolved"}

InteractionTypes == {"upvote", "downvote"}

FilterValues == {"all"} \cup Statuses

ReportIdOf(n) == IF n = 1 THEN "r1" ELSE IF n = 2 THEN "r2" ELSE IF n = 3 THEN "r3" ELSE "r4"

UserIds == {"u1", "u2"}

\* A thrown value: a supabase error object, an Error instance or not.
ErrorValues == {[isError |-> TRUE, message |-> "query failed"],
                [isError |-> FALSE, message |-> "permission denied"]}

(***************************************************************************)
(* JavaScript helpers.                                                     *)
(***************************************************************************)
\* A string (or null / undefined) is truthy unless it is null or empty.
Truthy(v) == v # NULL /\ v # ""

\* a || b on strings.
JsOr(a, b) == IF Truthy(a) THEN a ELSE b

\* obj.k, undefined (NULL) when the object has no such property.
Get(obj, k) == IF k \in DOMAIN obj THEN obj[k] ELSE NULL

\* { ...a, ...b }: the properties of a, overridden and extended by those of b.
Spread(a, b) ==
    [k \in (DOMAIN a) \cup (DOMAIN b) |-> IF k \in DOMAIN b THEN b[k] ELSE a[k]]

\* !report.is_anonymous is false only for a row whose flag is true; a row
\* without the column (the Report interface declares none) reads undefined.
IsAnonymous(report) ==
    "is_anonymous" \in DOMAIN report /\ report.is_anonymous = TRUE

(***************************************************************************)
(* The remote queries.                                                     *)
(***************************************************************************)
\* Insert row r into a sequence sorted by created_at, descending.
RECURSIVE InsertDesc(_, _)
InsertDesc(r, s) ==
    IF s = << >> THEN <<r>>
    ELSE IF r.created_at >= Head(s).created_at THEN <<r>> \o s
    ELSE <<Head(s)>> \o InsertDesc(r, Tail(s))

\* from("reports").select("*").order("created_at", { ascending: false })
RECURSIVE SelectReports(_)
SelectReports(table) ==
    IF table = << >> THEN << >>
    ELSE InsertDesc(Head(table), SelectReports(Tail(table)))

(***************************************************************************)
(* The aggregation of fetchReports.                                        *)
(***************************************************************************)
\* profilesData.forEach(profile => profilesMap.set(profile.id, profile))
RECURSIVE ProfilesMap(_)
ProfilesMap(profilesData) ==
    IF profilesData = << >> THEN << >>
    ELSE LET n    == Len(profilesData)
             last == profilesData[n]
             rest == ProfilesMap(SubSeq(profilesData, 1, n - 1))
         IN  [id \in (DOMAIN rest) \cup {last.id} |->
                 IF id = last.id THEN last ELSE rest[id]]

\* interactionsData.filter(i => i.report_id === report.id)
ReportInteractions(report, interactionsData) ==
    LET Match(i) == i.report_id = report.id
    IN  SelectSeq(interactionsData, Match)

\* A faulty count: the interactions of every report are counted.
CountVotesWrong(report, interactionsData, type) ==
    LET OfType(i) == i.interaction_type = type
    IN  Len(SelectSeq(interactionsData, OfType))

\* reportInteractions.filter(i => i.interaction_type === type).length
CountVotes(report, interactionsData, type) ==
    LET OfType(i) == i.interaction_type = type
    IN  Len(SelectSeq(ReportInteractions(report, interactionsData), OfType))

\* A faulty name: the profile is looked up before the anonymity flag is read.
ReporterNameLeaky(report, profilesMap) ==
    IF report.user_id \in DOMAIN profilesMap
    THEN JsOr(JsOr(Get(profilesMap[report.user_id], "full_name"),
                   Get(profilesMap[report.user_id], "email")), "Unknown")
    ELSE IF IsAnonymous(report) THEN "Anonymous" ELSE "Unknown"

\* A faulty name: the email is preferred to the full name.
ReporterNameEmailFirst(report, profilesMap) ==
    IF IsAnonymous(report) THEN "Anonymous"
    ELSE IF report.user_id \in DOMAIN profilesMap
         THEN JsOr(JsOr(Get(profilesMap[report.user_id], "email"),
                        Get(profilesMap[report.user_id], "full_name")), "Unknown")
         ELSE "Unknown"

\* let reporter_name = "Anonymous"; if (!report.is_anonymous) { profile =
\* profilesMap.get(report.user_id); reporter_name = profile?.full_name ||
\* profile?.email || "Unknown" }
ReporterName(report, profilesMap) ==
    IF IsAnonymous(report) THEN "Anonymous"
    ELSE IF report.user_id \in DOMAIN profilesMap
         THEN JsOr(JsOr(Get(profilesMap[report.user_id], "full_name"),
                        Get(profilesMap[report.user_id], "email")), "Unknown")
         ELSE "Unknown"

\* The row built for one report.
ReportRow(report, interactionsData, profilesMap, wp) ==
    LET votes == [upvotes   |-> CountVotes(report, interactionsData, "upvote"),
                  downvotes |-> CountVotes(report, interactionsData, "downvote")]
    IN  IF wp
        THEN Spread(report, Spread(votes,
                 [reporter_name |-> ReporterName(report, profilesMap)]))
        ELSE Spread(report, votes)

\* A faulty aggregation: reports nobody voted on are dropped.
ReportsWithVotesDropping(reportsData, interactionsData, profilesData, wp) ==
    LET Voted(r) == ReportInteractions(r, interactionsData) # << >>
        kept == SelectSeq(reportsData, Voted)
    IN  [i \in 1..Len(kept) |->
            ReportRow(kept[i], interactionsData, ProfilesMap(profilesData), wp)]

\* reportsWithVotes = (reportsData || []).map(report => ...)
ReportsWithVotes(reportsData, interactionsData, profilesData, wp) ==
    [i \in 1..Len(reportsData) |->
        ReportRow(reportsData[i], interactionsData, ProfilesMap(profilesData), wp)]

(***************************************************************************)
(* The view.                                                               *)
(***************************************************************************)
\* A faulty filter: the reports of the chosen status are the hidden ones.
FilteredReportsNegated(rs, f) ==
    LET Keep(r) == r.status # f
    IN  IF f = "all" THEN rs ELSE SelectSeq(rs, Keep)

\* filteredReports
FilteredReports(rs, f) ==
    LET Keep(r) == r.status = f
    IN  IF f = "all" THEN rs ELSE SelectSeq(rs, Keep)

\* What the component renders: the spinner, the error with Retry, or the table.
View ==
    IF loading THEN "spinner"
    ELSE IF Truthy(error) THEN "error"
    ELSE "table"

\* The status buttons rendered in the row of a report.
Buttons(report) == {s \in Statuses : report.status # s}

(***************************************************************************)
(* Initial states.                                                         *)
(***************************************************************************)
\* A fetchReports run: its position (idle, waiting for the reports, the
\* interactions or the profiles query, done, failed), the rows its queries
\* returned (a successful query returns an array, so the "|| []" and "?."
\* guards of the code never act), the number of queries it has issued, and,
\* once it is done, how many reports it had fetched (kept for the properties;
\* the rows themselves are dropped).
IdleRun == [pc |-> "idle", reportsData |-> << >>, interactionsData |-> << >>,
            queries |-> 0, got |-> 0]

\* An updateReportStatus call: its position (idle, sent, ok or err once the
\* backend has answered, done or failed once the await has returned), its
\* arguments, the updated_at it sent, and, once done, the local status it
\* replaced (kept for the properties).
IdleCall == [pc |-> "idle", reportId |-> NULL, status |-> NULL, updated_at |-> 0,
             from |-> NULL]

\* The component right after construction (the useState initial values), with
\* room for nf fetchReports runs and nu updateReportStatus calls.
InitComponent(nf, nu) ==
    /\ mounted = FALSE
    /\ reports = << >>
    /\ loading = TRUE
    /\ error = NULL
    /\ statusFilter = "all"
    /\ fetches = [f \in 1..nf |-> IdleRun]
    /\ updates = [u \in 1..nu |-> IdleCall]
    /\ alerts = 0
    /\ now = 1
    /\ lastSet = 0

\* A row of the reports table, as a citizen's client inserts it; ids are the
\* primary key and creation times increase with the insertions.
NewReport(n, user, anon) ==
    [id |-> ReportIdOf(n), user_id |-> user, status |-> "reported",
     created_at |-> n, updated_at |-> 0, is_anonymous |-> anon]

Init ==
    /\ dbReports = <<NewReport(1, "u1", FALSE)>>
    /\ dbInteractions = <<[report_id |-> "r1", interaction_type |-> "upvote"]>>
    /\ dbProfiles = <<[id |-> "u1", full_name |-> "Asha", email |-> "asha@x.org"]>>
    /\ withProfiles \in BOOLEAN
    /\ InitComponent(MaxFetches, 0)

(***************************************************************************)
(* fetchReports.                                                           *)
(***************************************************************************)
\* The lowest run (call) not yet started; 0 when the bound is used up.
NextRun ==
    IF \E f \in DOMAIN fetches : fetches[f].pc = "idle"
    THEN CHOOSE f \in DOMAIN fetches :
            fetches[f].pc = "idle" /\ \A g \in DOMAIN fetches : g < f => fetches[g].pc # "idle"
    ELSE 0

NextCall ==
    IF \E u \in DOMAIN updates : updates[u].pc = "idle"
    THEN CHOOSE u \in DOMAIN updates :
            updates[u].pc = "idle" /\ \A v \in DOMAIN updates : v < u => updates[v].pc # "idle"
    ELSE 0

\* A run up to its first await: setLoading(true), setError(null), the reports
\* query is issued.
StartedRun == [IdleRun EXCEPT !.pc = "reports", !.queries = 1]

StartFetch(f) ==
    /\ loading' = TRUE
    /\ error' = NULL
    /\ fetches' = [fetches EXCEPT ![f] = StartedRun]

\* useEffect(() => { fetchReports() }, []): once in a production build, twice
\* under StrictMode in a development build (the state is kept across the
\* simulated remount, so both runs act on the same component state).
Mount(n) ==
    /\ ~mounted
    /\ mounted' = TRUE
    /\ loading' = TRUE
    /\ error' = NULL
    /\ fetches' = [f \in DOMAIN fetches |-> IF f <= n THEN StartedRun ELSE fetches[f]]
    /\ UNCHANGED <<dbReports, dbInteractions, dbProfiles, withProfiles, reports,
                   statusFilter, updates, alerts, now, lastSet>>

\* The Refresh button of the table view.
Refresh ==
    /\ mounted
    /\ View = "table"
    /\ NextRun # 0
    /\ StartFetch(NextRun)
    /\ UNCHANGED <<dbReports, dbInteractions, dbProfiles, withProfiles, mounted,
                   reports, statusFilter, updates, alerts, now, lastSet>>

\* The Retry button of the error view.
Retry ==
    /\ mounted
    /\ View = "error"
    /\ NextRun # 0
    /\ StartFetch(NextRun)
    /\ UNCHANGED <<dbReports, dbInteractions, dbProfiles, withProfiles, mounted,
                   reports, statusFilter, updates, alerts, now, lastSet>>

\* A variant with sequencing tokens: a run that is not the latest to write is
\* ignored.
CommitReportsSequenced(f, rows) ==
    /\ reports' = IF f > lastSet THEN rows ELSE reports
    /\ lastSet' = IF f > lastSet THEN f ELSE lastSet

\* setReports(reportsWithVotes)
CommitReports(f, rows) ==
    /\ reports' = rows
    /\ lastSet' = f

\* The end of the try block, then finally: the rows are aggregated and stored.
FinishFetch(f, interactionsData, profilesData) ==
    /\ CommitReports(f, ReportsWithVotes(fetches[f].reportsData, interactionsData,
                                         profilesData, withProfiles))
    /\ loading' = FALSE
    /\ UNCHANGED error

\* A failure handler that stores the rows aggregated from what was fetched.
FailFetchPartial(f, err) ==
    /\ error' = IF err.isError THEN err.message ELSE "An error occurred"
    /\ loading' = FALSE
    /\ fetches' = [fetches EXCEPT ![f].pc = "failed", ![f].reportsData = << >>,
                                  ![f].interactionsData = << >>]
    /\ reports' = ReportsWithVotes(fetches[f].reportsData, << >>, << >>, withProfiles)
    /\ UNCHANGED lastSet

\* A failure handler without the finally block: setLoading(false) is the last
\* statement of the try block, which a throw skips.
FailFetchNoFinally(f, err) ==
    /\ error' = IF err.isError THEN err.message ELSE "An error occurred"
    /\ fetches' = [fetches EXCEPT ![f].pc = "failed", ![f].reportsData = << >>,
                                  ![f].interactionsData = << >>]
    /\ UNCHANGED <<reports, lastSet, loading>>

\* throw, catch, finally: the message is stored, nothing else of the run is.
FailFetch(f, err) ==
    /\ error' = IF err.isError THEN err.message ELSE "An error occurred"
    /\ loading' = FALSE
    /\ fetches' = [fetches EXCEPT ![f].pc = "failed", ![f].reportsData = << >>,
                                  ![f].interactionsData = << >>]
    /\ UNCHANGED <<reports, lastSet>>

\* The reports query returns rows; the interactions query is issued.
ReportsOk(f) ==
    /\ fetches[f].pc = "reports"
    /\ fetches' = [fetches EXCEPT ![f].pc = "interactions",
                                  ![f].reportsData = SelectReports(dbReports),
                                  ![f].queries = 2]
    /\ UNCHANGED <<dbReports, dbInteractions, dbProfiles, withProfiles, mounted,
                   reports, loading, error, statusFilter, updates, alerts, now,
                   lastSet>>

ReportsErr(f, err) ==
    /\ fetches[f].pc = "reports"
    /\ FailFetch(f, err)
    /\ UNCHANGED <<dbReports, dbInteractions, dbProfiles, withProfiles, mounted,
                   statusFilter, updates, alerts, now>>

\* The interactions query returns rows; with profiles the profiles query is
\* issued, without them the run finishes.
InteractionsOk(f) ==
    /\ fetches[f].pc = "interactions"
    /\ IF withProfiles
       THEN /\ fetches' = [fetches EXCEPT ![f].pc = "profiles",
                                          ![f].interactionsData = dbInteractions,
                                          ![f].queries = 3]
            /\ UNCHANGED <<reports, loading, error, lastSet>>
       ELSE /\ FinishFetch(f, dbInteractions, << >>)
            /\ fetches' = [fetches EXCEPT ![f].pc = "done",
                                          ![f].reportsData = << >>,
                                          ![f].got = Len(fetches[f].reportsData)]
    /\ UNCHANGED <<dbReports, dbInteractions, dbProfiles, withProfiles, mounted,
                   statusFilter, updates, alerts, now>>

InteractionsErr(f, err) ==
    /\ fetches[f].pc = "interactions"
    /\ FailFetch(f, err)
    /\ UNCHANGED <<dbReports, dbInteractions, dbProfiles, withProfiles, mounted,
                   statusFilter, updates, alerts, now>>

\* The profiles query returns rows; the run finishes.
ProfilesOk(f) ==
    /\ fetches[f].pc = "profiles"
    /\ FinishFetch(f, fetches[f].interactionsData, dbProfiles)
    /\ fetches' = [fetches EXCEPT ![f].pc = "done",
                                  ![f].reportsData = << >>,
                                  ![f].interactionsData = << >>,
                                  ![f].got = Len(fetches[f].reportsData)]
    /\ UNCHANGED <<dbReports, dbInteractions, dbProfiles, withProfiles, mounted,
                   statusFilter, updates, alerts, now>>

ProfilesErr(f, err) ==
    /\ fetches[f].pc = "profiles"
    /\ FailFetch(f, err)
    /\ UNCHANGED <<dbReports, dbInteractions, dbProfiles, withProfiles, mounted,
                   statusFilter, updates, alerts, now>>

(***************************************************************************)
(* The status filter.                                                      *)
(***************************************************************************)
\* handleFilterChange / the select's onChange
SetFilter(v) ==
    /\ mounted
    /\ View = "table"
    /\ v # statusFilter
    /\ statusFilter' = v
    /\ UNCHANGED <<dbReports, dbInteractions, dbProfiles, withProfiles, mounted,
                   reports, loading, error, fetches, updates, alerts, now, lastSet>>

(***************************************************************************)
(* updateReportStatus.                                                     *)
(***************************************************************************)
\* from("reports").update(patch).eq("id", reportId), as the backend applies it.
RemoteUpdate(table, reportId, patch) ==
    [i \in 1..Len(table) |->
        IF table[i].id = reportId THEN Spread(table[i], patch) ELSE table[i]]

\* A local update with a legality check: a status only moves forward.
StatusRank(st) == IF st = "reported" THEN 1 ELSE IF st = "in_progress" THEN 2 ELSE 3

LocalUpdateForward(prev, reportId, newStatus, ts) ==
    [i \in 1..Len(prev) |->
        IF prev[i].id = reportId /\ StatusRank(newStatus) > StatusRank(prev[i].status)
        THEN Spread(prev[i], [status |-> newStatus, updated_at |-> ts])
        ELSE prev[i]]

\* A local update that resets the votes of the matching row.
LocalUpdateLossy(prev, reportId, newStatus, ts) ==
    [i \in 1..Len(prev) |->
        IF prev[i].id = reportId
        THEN Spread(prev[i], [status |-> newStatus, updated_at |-> ts, upvotes |-> 0])
        ELSE prev[i]]

\* prev.map(report => report.id === reportId
\*                      ? { ...report, status, updated_at } : report)
LocalUpdate(prev, reportId, newStatus, ts) ==
    [i \in 1..Len(prev) |->
        IF prev[i].id = reportId
        THEN Spread(prev[i], [status |-> newStatus, updated_at |-> ts])
        ELSE prev[i]]

\* The local status of the report a call is about (NULL: no such local row).
LocalStatus(rs, reportId) ==
    IF \E i \in 1..Len(rs) : rs[i].id = reportId
    THEN rs[CHOOSE i \in 1..Len(rs) : rs[i].id = reportId].status
    ELSE NULL

\* A status button that also changes the row at once, before the request.
ClickStatusEager(i, s) ==
    /\ mounted
    /\ View = "table"
    /\ NextCall # 0
    /\ i \in 1..Len(FilteredReports(reports, statusFilter))
    /\ s \in Buttons(FilteredReports(reports, statusFilter)[i])
    /\ updates' = [updates EXCEPT ![NextCall] =
                      [pc |-> "sent",
                       reportId |-> FilteredReports(reports, statusFilter)[i].id,
                       status |-> s, updated_at |-> now, from |-> NULL]]
    /\ reports' = LocalUpdate(reports,
                      FilteredReports(reports, statusFilter)[i].id, s, now)
    /\ now' = now + 1
    /\ UNCHANGED <<dbReports, dbInteractions, dbProfiles, withProfiles, mounted,
                   loading, error, statusFilter, fetches, alerts, lastSet>>

\* A status button of row i of the table is clicked: updateReportStatus runs
\* up to its await, the update request is issued.
ClickStatus(i, s) ==
    /\ mounted
    /\ View = "table"
    /\ NextCall # 0
    /\ i \in 1..Len(FilteredReports(reports, statusFilter))
    /\ s \in Buttons(FilteredReports(reports, statusFilter)[i])
    /\ updates' = [updates EXCEPT ![NextCall] =
                      [pc |-> "sent",
                       reportId |-> FilteredReports(reports, statusFilter)[i].id,
                       status |-> s, updated_at |-> now, from |-> NULL]]
    /\ now' = now + 1
    /\ UNCHANGED <<dbReports, dbInteractions, dbProfiles, withProfiles, mounted,
                   reports, loading, error, statusFilter, fetches, alerts, lastSet>>

\* The backend applies the update and answers without an error.
UpdateApplied(u) ==
    /\ updates[u].pc = "sent"
    /\ dbReports' = RemoteUpdate(dbReports, updates[u].reportId,
                        [status |-> updates[u].status,
                         updated_at |-> updates[u].updated_at])
    /\ updates' = [updates EXCEPT ![u].pc = "ok"]
    /\ UNCHANGED <<dbInteractions, dbProfiles, withProfiles, mounted, reports,
                   loading, error, statusFilter, fetches, alerts, now, lastSet>>

\* The backend answers with an error; no row is changed.
UpdateRejected(u) ==
    /\ updates[u].pc = "sent"
    /\ updates' = [updates EXCEPT ![u].pc = "err"]
    /\ UNCHANGED <<dbReports, dbInteractions, dbProfiles, withProfiles, mounted,
                   reports, loading, error, statusFilter, fetches, alerts, now,
                   lastSet>>

\* The await returns without error: the local state is updated.
UpdateReturnOk(u) ==
    /\ updates[u].pc = "ok"
    /\ reports' = LocalUpdate(reports, updates[u].reportId, updates[u].status, now)
    /\ now' = now + 1
    /\ updates' = [updates EXCEPT ![u].pc = "done",
                                  ![u].from = LocalStatus(reports, updates[u].reportId)]
    /\ UNCHANGED <<dbReports, dbInteractions, dbProfiles, withProfiles, mounted,
                   loading, error, statusFilter, fetches, alerts, lastSet>>

\* The await returns an error: throw, catch, alert.
UpdateReturnErr(u) ==
    /\ updates[u].pc = "err"
    /\ alerts' = alerts + 1
    /\ updates' = [updates EXCEPT ![u].pc = "failed"]
    /\ UNCHANGED <<dbReports, dbInteractions, dbProfiles, withProfiles, mounted,
                   reports, loading, error, statusFilter, fetches, now, lastSet>>

(***************************************************************************)
(* The other clients of the backend.                                       *)
(***************************************************************************)
\* A citizen submits a report.
CitizenSubmitReport ==
    /\ Len(dbReports) < MaxReports
    /\ dbReports' = Append(dbReports, NewReport(Len(dbReports) + 1, "u2", TRUE))
    /\ UNCHANGED <<dbInteractions, dbProfiles, withProfiles, mounted, reports,
                   loading, error, statusFilter, fetches, updates, alerts, now,
                   lastSet>>

(***************************************************************************)
(* Spec: the fetches of the dashboard (mount, Refresh, Retry) against a    *)
(* backend to which citizens submit reports meanwhile.                     *)
(***************************************************************************)
Next ==
    \/ \E n \in {1, 2} : Mount(n)
    \/ Refresh
    \/ Retry
    \/ \E f \in DOMAIN fetches : ReportsOk(f)
    \/ \E f \in DOMAIN fetches, err \in ErrorValues : ReportsErr(f, err)
    \/ \E f \in DOMAIN fetches : InteractionsOk(f)
    \/ \E f \in DOMAIN fetches, err \in ErrorValues : InteractionsErr(f, err)
    \/ \E f \in DOMAIN fetches : ProfilesOk(f)
    \/ \E f \in DOMAIN fetches, err \in ErrorValues : ProfilesErr(f, err)
    \/ CitizenSubmitReport

Spec == Init /\ [][Next]_vars

\* A remote call of run f returns, with data or with an error.
FetchReturns(f) ==
    \/ ReportsOk(f)
    \/ \E err \in ErrorValues : ReportsErr(f, err)
    \/ InteractionsOk(f)
    \/ \E err \in ErrorValues : InteractionsErr(f, err)
    \/ ProfilesOk(f)
    \/ \E err \in ErrorValues : ProfilesErr(f, err)

\* SpecFair: Spec, where the mount effect runs once the component is rendered
\* and every remote call of a run returns.  Nothing obliges the user to click
\* Refresh or Retry, or a citizen to submit a report.
SpecFair ==
    /\ Init
    /\ [][Next]_vars
    /\ WF_vars(\E n \in {1, 2} : Mount(n))
    /\ \A f \in 1..MaxFetches : WF_vars(FetchReturns(f))

(***************************************************************************)
(* SpecSolo: the whole dashboard (fetches, filter, status updates) as the  *)
(* only writer of the backend.                                             *)
(***************************************************************************)
InitSolo ==
    /\ dbReports = <<NewReport(1, "u1", FALSE),
                     [NewReport(2, "u2", TRUE) EXCEPT !.status = "resolved"]>>
    /\ dbInteractions = <<[report_id |-> "r1", interaction_type |-> "upvote"]>>
    /\ dbProfiles = <<[id |-> "u1", full_name |-> "Asha", email |-> "asha@x.org"]>>
    /\ withProfiles = TRUE
    /\ InitComponent(SoloMaxFetches, SoloMaxUpdates)

NextSolo ==
    \/ \E n \in {1, 2} : Mount(n)
    \/ Refresh
    \/ Retry
    \/ \E f \in DOMAIN fetches : ReportsOk(f)
    \/ \E f \in DOMAIN fetches, err \in ErrorValues : ReportsErr(f, err)
    \/ \E f \in DOMAIN fetches : InteractionsOk(f)
    \/ \E f \in DOMAIN fetches, err \in ErrorValues : InteractionsErr(f, err)
    \/ \E f \in DOMAIN fetches : ProfilesOk(f)
    \/ \E f \in DOMAIN fetches, err \in ErrorValues : ProfilesErr(f, err)
    \/ \E v \in FilterValues : SetFilter(v)
    \/ \E i \in 1..Len(reports), s \in Statuses : ClickStatus(i, s)
    \/ \E u \in DOMAIN updates : UpdateApplied(u)
    \/ \E u \in DOMAIN updates : UpdateRejected(u)
    \/ \E u \in DOMAIN updates : UpdateReturnOk(u)
    \/ \E u \in DOMAIN updates : UpdateReturnErr(u)

SpecSolo == InitSolo /\ [][NextSolo]_vars

(***************************************************************************)
(* SpecLive: fetches and status updates against a backend to which         *)
(* citizens submit reports meanwhile.                                      *)
(***************************************************************************)
InitLive ==
    /\ dbReports = <<NewReport(1, "u1", FALSE)>>
    /\ dbInteractions = <<[report_id |-> "r1", interaction_type |-> "upvote"]>>
    /\ dbProfiles = <<[id |-> "u1", full_name |-> "Asha", email |-> "asha@x.org"]>>
    /\ withProfiles = TRUE
    /\ InitComponent(MaxFetches, LiveMaxUpdates)

\* The queries of the fetches succeed here; their failures are those of Spec.
NextLive ==
    \/ \E n \in {1, 2} : Mount(n)
    \/ Refresh
    \/ \E f \in DOMAIN fetches : ReportsOk(f)
    \/ \E f \in DOMAIN fetches : InteractionsOk(f)
    \/ \E f \in DOMAIN fetches : ProfilesOk(f)
    \/ \E i \in 1..Len(reports), s \in Statuses : ClickStatus(i, s)
    \/ \E u \in DOMAIN updates : UpdateApplied(u)
    \/ \E u \in DOMAIN updates : UpdateRejected(u)
    \/ \E u \in DOMAIN updates : UpdateReturnOk(u)
    \/ \E u \in DOMAIN updates : UpdateReturnErr(u)
    \/ CitizenSubmitReport

SpecLive == InitLive /\ [][NextLive]_vars

(***************************************************************************)
(* SpecAgg: one fetchReports run, in either variant, over arbitrary        *)
(* contents of the three tables.                                           *)
(***************************************************************************)
\* Row n of a reports table: any owner, the anonymity flag true, false or
\* not a column of the table.
AggReportRows(n) ==
    LET base(user) == [id |-> ReportIdOf(n), user_id |-> user, status |-> "reported",
                       created_at |-> n, updated_at |-> 0]
    IN  {base(user) : user \in UserIds}
        \cup {Spread(base(user), [is_anonymous |-> a]) : user \in UserIds, a \in BOOLEAN}

AggReportTables ==
    UNION {{t \in [1..n -> UNION {AggReportRows(k) : k \in 1..n}] :
               \A k \in 1..n : t[k] \in AggReportRows(k)} : n \in 0..AggMaxReports}

\* Votes on the first two report ids, whether or not such a report exists.
AggInteractionRows ==
    [report_id : {ReportIdOf(1), ReportIdOf(2)}, interaction_type : InteractionTypes]

AggInteractionTables ==
    UNION {[1..n -> AggInteractionRows] : n \in 0..AggMaxInteractions}

\* The profile of u1, if any: the name null, empty or set, the email empty or
\* set.  u2 has no profile.
AggProfileTables ==
    {<< >>} \cup {<<[id |-> "u1", full_name |-> fn, email |-> em]>> :
                     fn \in {NULL, "", "Asha"}, em \in {"", "asha@x.org"}}

InitAgg ==
    /\ dbReports \in AggReportTables
    /\ dbInteractions \in AggInteractionTables
    /\ \/ withProfiles = TRUE /\ dbProfiles \in AggProfileTables
       \/ withProfiles = FALSE /\ dbProfiles = << >>
    /\ InitComponent(1, 0)

NextAgg ==
    \/ Mount(1)
    \/ \E f \in DOMAIN fetches : ReportsOk(f)
    \/ \E f \in DOMAIN fetches : InteractionsOk(f)
    \/ \E f \in DOMAIN fetches : ProfilesOk(f)

SpecAgg == InitAgg /\ [][NextAgg]_vars

(***************************************************************************)
(* Properties of the aggregation (SpecAgg).  In SpecAgg the tables do not  *)
(* change, so the rows stored by the run are those of the tables.          *)
(***************************************************************************)
\* The run has stored its rows.
Aggregated == lastSet # 0

\* The number of interactions of a type that reference a report id.
VotesFor(id, type) ==
    Cardinality({k \in 1..Len(dbInteractions) :
                    /\ dbInteractions[k].report_id = id
                    /\ dbInteractions[k].interaction_type = type})

\* The indices of the rows stored for a report id.
RowsOf(id) == {i \in 1..Len(reports) : reports[i].id = id}

\* C1: the row of every report has upvotes (downvotes) equal to the number of
\* interactions that reference the report and are upvotes (downvotes); a
\* report nobody voted on has 0 and 0, and votes on other reports do not count.
C1_VoteCounts ==
    Aggregated =>
        \A k \in 1..Len(dbReports) :
            /\ RowsOf(dbReports[k].id) # {}
            /\ \A i \in RowsOf(dbReports[k].id) :
                  /\ reports[i].upvotes = VotesFor(dbReports[k].id, "upvote")
                  /\ reports[i].downvotes = VotesFor(dbReports[k].id, "downvote")

\* The example of the specification (two upvotes and a downvote on one report)
\* beside a report without votes.
C1_Witness ==
    /\ Aggregated
    /\ Len(dbInteractions) = 3
    /\ \E i, j \in 1..Len(reports) :
          /\ i # j
          /\ reports[i].upvotes = 2 /\ reports[i].downvotes = 1
          /\ reports[j].upvotes = 0 /\ reports[j].downvotes = 0

\* The profiles of a user id in the profiles table.
ProfilesOf(user) == {k \in 1..Len(dbProfiles) : dbProfiles[k].id = user}

\* C2: with profiles, the row of a report whose is_anonymous flag is true has
\* reporter_name "Anonymous", whether or not its owner has a profile and
\* whatever the profile holds.
C2_AnonymousName ==
    (Aggregated /\ withProfiles) =>
        \A k \in 1..Len(dbReports) :
            ("is_anonymous" \in DOMAIN dbReports[k] /\ dbReports[k].is_anonymous) =>
                \A i \in RowsOf(dbReports[k].id) : reports[i].reporter_name = "Anonymous"

\* An anonymous report whose owner has a profile with a name and an email.
C2_Witness ==
    /\ Aggregated /\ withProfiles
    /\ \E k \in 1..Len(dbReports) :
          /\ "is_anonymous" \in DOMAIN dbReports[k] /\ dbReports[k].is_anonymous
          /\ \E p \in ProfilesOf(dbReports[k].user_id) :
                dbProfiles[p].full_name = "Asha" /\ dbProfiles[p].email = "asha@x.org"
          /\ \E i \in RowsOf(dbReports[k].id) : reports[i].reporter_name = "Anonymous"

\* The name the fallback rule gives the owner of a report: the full name of the
\* owner's profile when it is set (neither null nor empty), else the email of
\* the profile when it has one (not empty), else "Unknown".
FallbackName(user) ==
    IF \E p \in ProfilesOf(user) : dbProfiles[p].full_name \notin {NULL, ""}
    THEN dbProfiles[CHOOSE p \in ProfilesOf(user) :
                        dbProfiles[p].full_name \notin {NULL, ""}].full_name
    ELSE IF \E p \in ProfilesOf(user) : dbProfiles[p].email \notin {NULL, ""}
    THEN dbProfiles[CHOOSE p \in ProfilesOf(user) :
                        dbProfiles[p].email \notin {NULL, ""}].email
    ELSE "Unknown"

\* C3: the row of a report that is not anonymous (the flag false or absent) has
\* reporter_name equal to the full name of the owner's profile when there is a
\* profile with the name set, otherwise to the email of the profile when it has
\* one, otherwise "Unknown".
C3_NameFallback ==
    (Aggregated /\ withProfiles) =>
        \A k \in 1..Len(dbReports) :
            ~("is_anonymous" \in DOMAIN dbReports[k] /\ dbReports[k].is_anonymous) =>
                \A i \in RowsOf(dbReports[k].id) :
                    reports[i].reporter_name = FallbackName(dbReports[k].user_id)

\* Two reports that are not anonymous: the owner of one has a profile without a
\* name and is shown by the email, the owner of the other has no profile.
C3_Witness ==
    /\ Aggregated /\ withProfiles
    /\ \E i, j \in 1..Len(reports) :
          /\ ~IsAnonymous(reports[i]) /\ ~IsAnonymous(reports[j])
          /\ ProfilesOf(reports[i].user_id) # {}
          /\ \A p \in ProfilesOf(reports[i].user_id) : dbProfiles[p].full_name = NULL
          /\ reports[i].reporter_name = "asha@x.org"
          /\ ProfilesOf(reports[j].user_id) = {}
          /\ reports[j].reporter_name = "Unknown"

\* C5: the run stores exactly one row per fetched report, in the order of the
\* fetch (creation time, descending), and every row holds every field of its
\* report unchanged.
C5_OneRowPerReport ==
    Aggregated =>
        /\ Len(reports) = Len(dbReports)
        /\ \A k \in 1..Len(dbReports) :
              /\ Cardinality(RowsOf(dbReports[k].id)) = 1
              /\ \A i \in RowsOf(dbReports[k].id) :
                    \A field \in DOMAIN dbReports[k] :
                        /\ field \in DOMAIN reports[i]
                        /\ reports[i][field] = dbReports[k][field]
        /\ \A i, j \in 1..Len(reports) :
              i < j => reports[i].created_at > reports[j].created_at

\* Two reports, one of them without any vote, both stored, the newer first.
C5_Witness ==
    /\ Aggregated
    /\ Len(reports) = 2
    /\ reports[1].id = "r2" /\ reports[2].id = "r1"
    /\ \E i \in 1..2 : reports[i].upvotes = 0 /\ reports[i].downvotes = 0
    /\ \E i \in 1..2 : reports[i].upvotes > 0

(***************************************************************************)
(* Properties of the filter and of the status updates (SpecSolo).          *)
(***************************************************************************)
\* The rows the table shows.
Displayed == FilteredReports(reports, statusFilter)

\* The indices of the local reports whose status is s.
WithStatus(s) == {i \in 1..Len(reports) : reports[i].status = s}

\* The n-th smallest element of a set of indices.
Nth(S, n) == CHOOSE i \in S : Cardinality({k \in S : k < i}) = n - 1

\* C4: with the filter "all" the table shows the reports list as it is; with a
\* status as the filter it shows exactly the reports of that status, in their
\* relative order in the list.
C4_FilterExact ==
    /\ statusFilter \in FilterValues
    /\ statusFilter = "all" => Displayed = reports
    /\ statusFilter # "all" =>
          /\ Len(Displayed) = Cardinality(WithStatus(statusFilter))
          /\ \A n \in 1..Len(Displayed) :
                Displayed[n] = reports[Nth(WithStatus(statusFilter), n)]

\* A status filter that keeps the second of two reports and hides the first.
C4_Witness ==
    /\ statusFilter # "all"
    /\ Len(reports) = 2
    /\ Len(Displayed) = 1
    /\ Displayed[1] = reports[2]
    /\ reports[1].status # statusFilter

\* Row r2 agrees with row r1 on every field but status and updated_at.
SameButStatus(r1, r2) ==
    /\ DOMAIN r2 = DOMAIN r1
    /\ \A field \in DOMAIN r1 \ {"status", "updated_at"} : r2[field] = r1[field]

\* C6: a successful call updates, in the remote table, status and updated_at
\* of the rows with the id of the call and nothing else, and then, in the local
\* list, status and updated_at of the reports with that id and nothing else:
\* the other reports, the order, the other fields of the matching report
\* (upvotes, downvotes, reporter_name among them) stay, and without a matching
\* report the list stays as it is.
C6_UpdateFrame ==
    [][\A u \in DOMAIN updates :
          /\ (updates[u].pc = "sent" /\ updates'[u].pc = "ok") =>
                /\ reports' = reports
                /\ Len(dbReports') = Len(dbReports)
                /\ \A i \in 1..Len(dbReports) :
                      IF dbReports[i].id = updates[u].reportId
                      THEN /\ SameButStatus(dbReports[i], dbReports'[i])
                           /\ dbReports'[i].status = updates[u].status
                           /\ dbReports'[i].updated_at = updates[u].updated_at
                      ELSE dbReports'[i] = dbReports[i]
          /\ (updates[u].pc = "ok" /\ updates'[u].pc = "done") =>
                /\ dbReports' = dbReports
                /\ Len(reports') = Len(reports)
                /\ \A i \in 1..Len(reports) :
                      IF reports[i].id = updates[u].reportId
                      THEN /\ SameButStatus(reports[i], reports'[i])
                           /\ reports'[i].status = updates[u].status
                           /\ reports'[i].updated_at = now
                      ELSE reports'[i] = reports[i]
                /\ ((\A i \in 1..Len(reports) : reports[i].id # updates[u].reportId)
                        => reports' = reports)
      ]_vars

\* A call that succeeded on one of two local reports: its status and
\* updated_at changed here and in the remote table, its votes and reporter
\* name are those of the fetch, the other report is as fetched.
C6_Witness ==
    \E u \in DOMAIN updates :
        /\ updates[u].pc = "done"
        /\ Len(reports) = 2
        /\ \E i, j \in 1..2 :
              /\ i # j
              /\ reports[i].id = updates[u].reportId
              /\ reports[i].status = updates[u].status
              /\ reports[i].updated_at > 0
              /\ reports[i].upvotes = 1 /\ reports[i].reporter_name = "Asha"
              /\ reports[j].updated_at = 0 /\ reports[j].status = "reported"
              /\ reports[j].reporter_name = "Anonymous"
        /\ \E k \in 1..Len(dbReports) :
              /\ dbReports[k].id = updates[u].reportId
              /\ dbReports[k].status = updates[u].status
              /\ dbReports[k].updated_at = updates[u].updated_at

\* A call succeeded for a report that had been fetched and displayed, and that
\* a run which had fetched before the report existed has removed from the local
\* list meanwhile: the call found no report with its id.
C6_NoMatchReached ==
    \E u \in DOMAIN updates :
        /\ updates[u].pc = "done"
        /\ updates[u].from = NULL
        /\ reports # << >>
        /\ \A i \in 1..Len(reports) : reports[i].id # updates[u].reportId

\* A run of fetchReports stores its rows in this step.
FetchStores == \E f \in DOMAIN fetches : fetches[f].pc # "done" /\ fetches'[f].pc = "done"

\* C7: when the remote update returns an error the local reports are left as
\* they are and an alert is shown; the local reports change only by a fetch
\* storing its rows or by a call whose remote update has returned success.
C7_FailureLeavesLocal ==
    [][/\ \A u \in DOMAIN updates :
             /\ (updates[u].pc = "sent" /\ updates'[u].pc = "err") =>
                   reports' = reports /\ dbReports' = dbReports
             /\ (updates[u].pc = "err" /\ updates'[u].pc = "failed") =>
                   reports' = reports /\ alerts' = alerts + 1
       /\ (reports' # reports) =>
             \/ FetchStores
             \/ \E u \in DOMAIN updates : updates[u].pc = "ok" /\ updates'[u].pc = "done"
      ]_vars

\* A call has failed: one alert, and the report it was about has, locally and
\* remotely, the status it was fetched with.
C7_Witness ==
    \E u \in DOMAIN updates :
        /\ updates[u].pc = "failed"
        /\ alerts = 1
        /\ \E i \in 1..Len(reports) :
              /\ reports[i].id = updates[u].reportId
              /\ reports[i].status # updates[u].status
              /\ reports[i].updated_at = 0
        /\ \E k \in 1..Len(dbReports) :
              /\ dbReports[k].id = updates[u].reportId
              /\ dbReports[k].status # updates[u].status

\* C10: no transition is illegal.  A call that was issued is applied by the
\* backend and then locally whatever the current status is (the same status
\* included); what restricts the target is the table alone, which offers for a
\* displayed report the buttons of the statuses other than its local status.
C10_NoTransitionCheck ==
    /\ [](\A u \in DOMAIN updates :
             /\ updates[u].pc = "sent" => ENABLED UpdateApplied(u)
             /\ updates[u].pc = "ok" => ENABLED UpdateReturnOk(u))
    /\ []((mounted /\ View = "table" /\ NextCall # 0) =>
             \A i \in 1..Len(Displayed), s \in Statuses :
                 (ENABLED ClickStatus(i, s)) <=> (s # Displayed[i].status))
    /\ [][\A u \in DOMAIN updates :
             /\ (updates[u].pc = "sent" /\ updates'[u].pc = "ok") =>
                   \A k \in 1..Len(dbReports) :
                       dbReports[k].id = updates[u].reportId =>
                           dbReports'[k].status = updates[u].status
             /\ (updates[u].pc = "ok" /\ updates'[u].pc = "done") =>
                   \A i \in 1..Len(reports) :
                       reports[i].id = updates[u].reportId =>
                           reports'[i].status = updates[u].status
         ]_vars

\* A report that was resolved is back to reported after one call.
C10_Witness ==
    \E u \in DOMAIN updates :
        /\ updates[u].pc = "done"
        /\ updates[u].from = "resolved"
        /\ updates[u].status = "reported"
        /\ \E i \in 1..Len(reports) :
              reports[i].id = updates[u].reportId /\ reports[i].status = "reported"
        /\ \E k \in 1..Len(dbReports) :
              dbReports[k].id = updates[u].reportId /\ dbReports[k].status = "reported"

(***************************************************************************)
(* Properties of the fetches (Spec).                                       *)
(***************************************************************************)
InFlight == {"reports", "interactions", "profiles"}

\* The queries a run has issued when it waits at a position.
QueriesAt(pc) == IF pc = "reports" THEN 1 ELSE IF pc = "interactions" THEN 2 ELSE 3

\* C8: a run one of whose queries returns an error stores no rows (the reports
\* state stays as it was), issues no further query then or later, sets a
\* message that makes the view show the error with Retry, and sets loading to
\* false.
C8_FailedFetchDiscards ==
    [][\A f \in DOMAIN fetches :
          /\ (fetches[f].pc \in InFlight /\ fetches'[f].pc = "failed") =>
                /\ reports' = reports
                /\ lastSet' = lastSet
                /\ fetches'[f].queries = QueriesAt(fetches[f].pc)
                /\ error' # NULL
                /\ loading' = FALSE
                /\ View' = "error"
          /\ fetches[f].pc = "failed" => fetches'[f] = fetches[f]
      ]_vars

\* A Refresh whose interactions query failed: the rows of the earlier fetch are
\* still the reports state, the view shows the error.
C8_Witness ==
    /\ Cardinality(DOMAIN fetches) >= 2
    /\ fetches[1].pc = "done"
    /\ fetches[2].pc = "failed"
    /\ fetches[2].queries = 2
    /\ reports # << >>
    /\ lastSet = 1
    /\ View = "error"
    /\ error = "An error occurred"

\* C9: runs are neither cancelled nor sequenced.  A run that waits is not
\* touched by the start or the end of another run, and a run that ends well
\* stores the rows of the reports it fetched whatever other runs did meanwhile.
C9_NoSequencing ==
    [][\A f \in DOMAIN fetches :
          /\ (fetches[f].pc \in InFlight /\ fetches'[f].pc = "done") =>
                /\ lastSet' = f
                /\ Len(reports') = Len(fetches[f].reportsData)
                /\ \A i \in 1..Len(reports') :
                      /\ reports'[i].id = fetches[f].reportsData[i].id
                      /\ reports'[i].status = fetches[f].reportsData[i].status
          /\ \A g \in DOMAIN fetches :
                (g # f /\ fetches[f].pc \in InFlight /\ fetches'[g] # fetches[g]) =>
                    fetches'[f] = fetches[f]
      ]_vars

\* Run 1 started before run 2, fetched one report, ended after run 2, which
\* had fetched two: the reports state is the one report of run 1, although the
\* table holds two.
C9_Witness ==
    /\ Cardinality(DOMAIN fetches) >= 2
    /\ fetches[1].pc = "done" /\ fetches[2].pc = "done"
    /\ lastSet = 1
    /\ fetches[1].got = 1 /\ fetches[2].got = 2
    /\ Len(reports) = 1
    /\ Len(dbReports) = 2

(***************************************************************************)
(* Properties of the status updates that overlap fetches (SpecSolo).       *)
(***************************************************************************)
\* No fetchReports run and no updateReportStatus call is in flight.
NoRunInFlight == \A f \in DOMAIN fetches : fetches[f].pc \notin InFlight

NoCallInFlight == \A u \in DOMAIN updates : updates[u].pc \notin {"sent", "ok", "err"}

\* C11: with the dashboard as the only writer of the reports table, whenever no
\* run and no call is in flight and the table is shown (no error since the
\* last run started, so the last fetch succeeded), the local status of every
\* displayed report is the status of that report in the remote table.
C11_LocalMatchesRemote ==
    (mounted /\ View = "table" /\ NoRunInFlight /\ NoCallInFlight) =>
        \A i \in 1..Len(Displayed) :
            \A k \in 1..Len(dbReports) :
                dbReports[k].id = Displayed[i].id =>
                    Displayed[i].status = dbReports[k].status

(***************************************************************************)
(* Properties of the loading flag (Spec).                                  *)
(***************************************************************************)
\* C12: while at least one fetchReports run is in flight, loading is true and
\* the view is the spinner alone (no Refresh, no Retry, no status button),
\* however the runs were started and also when one of two overlapping runs has
\* finished.
C12_LoadingWhileInFlight ==
    (\E f \in DOMAIN fetches : fetches[f].pc \in InFlight) =>
        (loading /\ View = "spinner")

(***************************************************************************)
(* Termination of the fetches (SpecFair).                                  *)
(***************************************************************************)
Finished == {"done", "failed"}

\* C13: when every remote call returns, no run stays in flight forever: every
\* run that was started finishes (it has stored its rows or its error, and a
\* finished run never waits again); the step that finishes a run leaves
\* loading false, whichever query was its last and whether it succeeded; with
\* no run in flight after the mount loading is false; and the spinner never
\* stays forever.
C13_FetchTerminates ==
    /\ \A f \in 1..MaxFetches : []<>(fetches[f].pc \notin InFlight)
    /\ [][\A f \in DOMAIN fetches :
             /\ fetches[f].pc \in InFlight => fetches'[f].pc \in InFlight \cup Finished
             /\ fetches[f].pc \in Finished => fetches'[f].pc \in Finished]_vars
    /\ [][\A f \in DOMAIN fetches :
             (fetches[f].pc \in InFlight /\ fetches'[f].pc \in Finished) =>
                 loading' = FALSE]_vars
    /\ []((mounted /\ NoRunInFlight) => ~loading)
    /\ []<>(~loading)

\* A Refresh whose third query failed, after a mount fetch that ended well:
\* both runs have finished and the spinner is gone.
C13_Witness ==
    /\ Cardinality(DOMAIN fetches) >= 2
    /\ fetches[1].pc = "done"
    /\ fetches[2].pc = "failed"
    /\ fetches[2].queries = 3
    /\ NoRunInFlight
    /\ ~loading
    /\ View = "error"

====
